---- MODULE Spec2Model ----
(***************************************************************************)
(* Ride-hailing stream simulator: the CityGrid location sampler            *)
(* (city_grid.py) and the RideHailingDataGenerator (constructor and the    *)
(* generate_ride_requests tick, ride_hailing_generator.py).                *)
(*                                                                         *)
(* Number representation.  Coordinates are integers in units of 1e-5       *)
(* degree (40.75 -> 4075000).  Probabilities and random.random() draws     *)
(* are in hundredths (0.8 -> 80).  A Gaussian draw is in tenths (5.7 ->    *)
(* 57).  Times are whole epoch seconds.  cos/sin are tabulated for the     *)
(* twelve angles whose cosine and sine are exact multiples of 1/5.         *)
(***************************************************************************)
EXTENDS Integers, Sequences, FiniteSets, TLC

VARIABLES
    config,        \* the dict passed to __init__ (self.config)
    ctor_outcome,  \* "none" before __init__, "ok" once it has returned
    start_time,    \* value of current_time when __init__ returned
    current_time,  \* self.current_time, epoch seconds
    drivers,       \* self.drivers : driver_id -> driver record
    users,         \* self.users   : user_id   -> user record
    active_rides,  \* self.active_rides
    outcome,       \* how the last generate_ride_requests call ended
    last_gauss,    \* what random.gauss returned in the last call, in tenths
    emitted,       \* the batches returned so far, oldest first
    loc_bias,      \* hotspot_bias of the last get_random_location call
    loc_result,    \* what that call returned
    city,          \* the CityGrid object: lat_range, lon_range, hotspots
    demand_prev,   \* the get_hotspot_demand_factor call before the last one
    demand_last,   \* the last get_hotspot_demand_factor call and how it ended
    trip_last      \* the last calculate_trip_details call and how it ended

gen_vars == <<config, ctor_outcome, start_time, current_time, drivers, users,
              active_rides, outcome, last_gauss, emitted>>
grid_vars == <<loc_bias, loc_result, city, demand_prev, demand_last, trip_last>>
vars == <<config, ctor_outcome, start_time, current_time, drivers, users,
          active_rides, outcome, last_gauss, emitted, loc_bias, loc_result,
          city, demand_prev, demand_last, trip_last>>

(***************************************************************************)
(* Bounds of the exploration.                                              *)
(***************************************************************************)
MaxDrivers == 1
MaxUsers == 2
MaxEmitted == 2

(***************************************************************************)
(* CityGrid                                                                *)
(***************************************************************************)
lat_range == <<4070000, 4085000>>
lon_range == <<-7405000, -7390000>>

hotspots ==
    [ business_districts |->
        << [center |-> <<4075000, -7398000>>, radius |-> 2000, name |-> "Midtown"],
           [center |-> <<4071000, -7401000>>, radius |-> 1500, name |-> "Financial District"] >>,
      residential_areas |->
        << [center |-> <<4078000, -7395000>>, radius |-> 2500, name |-> "Upper East Side"],
           [center |-> <<4073000, -7399000>>, radius |-> 2000, name |-> "Greenwich Village"],
           [center |-> <<4080000, -7396000>>, radius |-> 2500, name |-> "Upper West Side"] >>,
      entertainment_zones |->
        << [center |-> <<4076000, -7398000>>, radius |-> 1500, name |-> "Times Square"],
           [center |-> <<4074000, -7399000>>, radius |-> 1500, name |-> "Chelsea"] >>,
      airports |->
        << [center |-> <<4064000, -7378000>>, radius |-> 3000, name |-> "JFK Airport"],
           [center |-> <<4077000, -7387000>>, radius |-> 2000, name |-> "LaGuardia Airport"] >> ]

\* list(self.hotspots.keys()), in insertion order
hotspot_keys ==
    <<"business_districts", "residential_areas", "entertainment_zones", "airports">>

CityGrid == [lat_range |-> lat_range, lon_range |-> lon_range, hotspots |-> hotspots]

\* 5*cos(angle) and 5*sin(angle) for the twelve tabulated angles in [0, 2*pi)
Cos5 == <<5, 4, 3, 0, -3, -4, -5, -4, -3, 0, 3, 4>>
Sin5 == <<0, 3, 4, 5, 4, 3, 0, -3, -4, -5, -4, -3>>
Angles == 1..12

\* max(a, b)
Max(a, b) == IF a >= b THEN a ELSE b

\* random.uniform(a, b) == a + (b - a) * random.random(), the draw u in hundredths
uniform(a, b, u) == a + ((b - a) * u) \div 100

\* random.choice(seq) with the drawn position reduced to the sequence's length
choice(seq, i) == seq[((i - 1) % Len(seq)) + 1]

\* the hotspot branch of get_random_location: polar offset around the center
hotspot_point(hotspot, angle, u) ==
    LET radius == uniform(0, hotspot.radius, u)
        lat_offset == (radius * Cos5[angle]) \div 5
        lon_offset == (radius * Sin5[angle]) \div 5
    IN  <<hotspot.center[1] + lat_offset, hotspot.center[2] + lon_offset>>

\* the other branch: a point of the bounding box
uniform_point(grid, u_lat, u_lon) ==
    << uniform(grid.lat_range[1], grid.lat_range[2], u_lat),
       uniform(grid.lon_range[1], grid.lon_range[2], u_lon) >>

\* A mutation of get_random_location: the bias test the wrong way round.
get_random_location_flipped(grid, hotspot_bias, d) ==
    IF d.rnd >= hotspot_bias
    THEN LET category == choice(hotspot_keys, d.category)
             hotspot == choice(grid.hotspots[category], d.hotspot)
         IN  hotspot_point(hotspot, d.angle, d.u_radius)
    ELSE uniform_point(grid, d.u_lat, d.u_lon)

\* get_random_location(hotspot_bias) with its random draws d made explicit:
\* d.rnd = random.random(), d.category / d.hotspot = the two random.choice
\* positions, d.angle, d.u_radius, d.u_lat, d.u_lon = the uniform draws.
get_random_location(grid, hotspot_bias, d) ==
    IF d.rnd < hotspot_bias
    THEN LET category == choice(hotspot_keys, d.category)
             hotspot == choice(grid.hotspots[category], d.hotspot)
         IN  hotspot_point(hotspot, d.angle, d.u_radius)
    ELSE uniform_point(grid, d.u_lat, d.u_lon)

\* the draws explored for one get_random_location call: random.random() in
\* hundredths, and the fraction drawn by each random.uniform in hundredths
RndDraws == {0, 85, 99}
UnitDraws == {0, 50, 100}

\* the hotspot_bias values explored: the two extremes, the default 0.8, and 0.9
Biases == {0, 80, 90, 100}

\* a call of CityGrid.get_random_location from any caller
sample_location ==
    /\ \E bias \in Biases :
         \E rnd \in RndDraws :
           IF rnd < bias
           THEN \E c \in 1..4, h \in 1..3, a \in Angles, u \in UnitDraws :
                  /\ loc_bias' = bias
                  /\ loc_result' = get_random_location(city, bias,
                        [rnd |-> rnd, category |-> c, hotspot |-> h, angle |-> a,
                         u_radius |-> u, u_lat |-> 0, u_lon |-> 0])
           ELSE \E ulat \in UnitDraws, ulon \in UnitDraws :
                  /\ loc_bias' = bias
                  /\ loc_result' = get_random_location(city, bias,
                        [rnd |-> rnd, category |-> 1, hotspot |-> 1, angle |-> 1,
                         u_radius |-> 0, u_lat |-> ulat, u_lon |-> ulon])
    /\ UNCHANGED <<city, demand_prev, demand_last, trip_last>>
    /\ UNCHANGED gen_vars

(***************************************************************************)
(* CityGrid.get_hotspot_demand_factor                                      *)
(*                                                                         *)
(* Demand factors and increments are in tenths (1.0 -> 10, 0.1 -> 1).      *)
(* Distances are in metres.                                                *)
(***************************************************************************)
\* the names bound in the module city_grid when its functions run: the three
\* imports of lines 1-3 and the class; nothing binds geodesic
city_grid_globals == {"np", "random", "math", "CityGrid"}

\* the integer square root, by bisection
RECURSIVE isqrt_between(_, _, _)
isqrt_between(s, lo, hi) ==
    IF lo >= hi THEN lo
    ELSE LET mid == (lo + hi + 1) \div 2
         IN  IF mid * mid <= s THEN isqrt_between(s, mid, hi)
             ELSE isqrt_between(s, lo, mid - 1)
isqrt(s) == isqrt_between(s, 0, 46340)

\* geodesic(p, q).kilometers, in metres, were the name bound: the distance on
\* the ellipsoid, here by its plane approximation at the grid's latitude
\* (1e-5 degree is 1.11 m of latitude and 0.84 m of longitude)
geodesic_m(p, q) ==
    LET x == ((p[1] - q[1]) * 111) \div 100
        y == ((p[2] - q[2]) * 84) \div 100
    IN  isqrt(x * x + y * y)

\* hotspot['radius'] * 111, in metres (radius in 1e-5 degree)
radius_m(hotspot) == (hotspot.radius * 111) \div 100

\* lines 84-113: what one in-range hotspot of the category adds at the hour
demand_increment(category, hour) ==
    IF category = "business_districts" THEN
        IF 7 <= hour /\ hour < 10 THEN 20
        ELSE IF 16 <= hour /\ hour < 19 THEN 25
        ELSE IF 12 <= hour /\ hour < 14 THEN 15
        ELSE IF 22 <= hour \/ hour < 5 THEN 2
        ELSE 0
    ELSE IF category = "residential_areas" THEN
        IF 6 <= hour /\ hour < 9 THEN 18
        ELSE IF 17 <= hour /\ hour < 20 THEN 12
        ELSE 0
    ELSE IF category = "entertainment_zones" THEN
        IF 18 <= hour /\ hour < 22 THEN 20
        ELSE IF 22 <= hour \/ hour < 3 THEN 30
        ELSE 0
    ELSE IF category = "airports" THEN
        10 + (IF (7 <= hour /\ hour < 10) \/ (16 <= hour /\ hour < 20) THEN 5 ELSE 0)
    ELSE 0

\* the (category, position) pairs in the order the two loops visit them
RECURSIVE hotspot_visits(_, _, _)
hotspot_visits(g, c, h) ==
    IF c > Len(hotspot_keys) THEN <<>>
    ELSE IF h > Len(g.hotspots[hotspot_keys[c]]) THEN hotspot_visits(g, c + 1, 1)
    ELSE <<<<hotspot_keys[c], h>>>> \o hotspot_visits(g, c, h + 1)

\* the loops of lines 75-113 with geodesic bound: the running demand_factor
RECURSIVE demand_loop(_, _, _, _, _)
demand_loop(g, location, hour, visits, demand_factor) ==
    IF visits = <<>> THEN demand_factor
    ELSE LET category == Head(visits)[1]
             hotspot == g.hotspots[category][Head(visits)[2]]
             distance == geodesic_m(location, hotspot.center)
         IN  demand_loop(g, location, hour, Tail(visits),
                 IF distance <= radius_m(hotspot)
                 THEN demand_factor + demand_increment(category, hour)
                 ELSE demand_factor)

Raised(name) == [kind |-> name, value |-> 0]
Returned(v) == [kind |-> "value", value |-> v]

\* get_hotspot_demand_factor(location, time_of_day), hour = time_of_day.hour.
\* The first loop iteration evaluates the name geodesic (line 77).
get_hotspot_demand_factor(names, g, location, hour) ==
    LET visits == hotspot_visits(g, 1, 1)
    IN  IF visits # <<>> /\ "geodesic" \notin names
        THEN Raised("NameError")
        ELSE Returned(Max(1, demand_loop(g, location, hour, visits, 10)))

\* the arguments explored: the Midtown center, the Times Square center (inside
\* Midtown too), a corner of the bounding box, the JFK center; every hour
DemandLocations ==
    { <<4075000, -7398000>>, <<4076000, -7398000>>, <<4070000, -7405000>>,
      <<4064000, -7378000>> }
Hours == 0..23

NoDemandCall == [called |-> FALSE, location |-> <<0, 0>>, hour |-> 0,
                 out |-> [kind |-> "none", value |-> 0]]

\* A mutation of demand_factor_call: the call consumes the table it walks
\* (every category is left empty).
demand_factor_call_trimming ==
    /\ \E location \in DemandLocations, hour \in Hours :
         /\ demand_last' =
              [called |-> TRUE, location |-> location, hour |-> hour,
               out |-> get_hotspot_demand_factor(city_grid_globals, city, location, hour)]
         /\ demand_prev' = demand_last
    /\ city' = [city EXCEPT !.hotspots = [c \in DOMAIN city.hotspots |-> <<>>]]
    /\ UNCHANGED <<loc_bias, loc_result, trip_last>>
    /\ UNCHANGED gen_vars

\* a call of CityGrid.get_hotspot_demand_factor from any caller
demand_factor_call ==
    /\ \E location \in DemandLocations, hour \in Hours :
         /\ demand_last' =
              [called |-> TRUE, location |-> location, hour |-> hour,
               out |-> get_hotspot_demand_factor(city_grid_globals, city, location, hour)]
         /\ demand_prev' = demand_last
    /\ UNCHANGED <<loc_bias, loc_result, city, trip_last>>
    /\ UNCHANGED gen_vars

(***************************************************************************)
(* CityGrid.calculate_trip_details                                         *)
(*                                                                         *)
(* Distances in metres, durations in thousandths of a minute, money in     *)
(* 1e-5 of the currency unit until rounded.  The result holds distance in  *)
(* hundredths of a km, duration in whole minutes, fare in cents.           *)
(***************************************************************************)
\* round(x / d) to the nearest integer, ties to the even one (Python's round)
round_half_even(x, d) ==
    LET q == x \div d
        r == x % d
    IN  IF 2 * r < d THEN q
        ELSE IF 2 * r > d THEN q + 1
        ELSE IF q % 2 = 0 THEN q ELSE q + 1

\* calculate_trip_details(pickup, destination); d.speed = the uniform(15, 35)
\* draw in km/h, d.delay = the uniform(0, 10) draw in thousandths of a minute.
\* Line 122 evaluates the name geodesic before anything else.
calculate_trip_details(names, pickup, destination, d) ==
    IF "geodesic" \notin names
    THEN [kind |-> "NameError", distance |-> 0, duration |-> 0, fare |-> 0]
    ELSE LET distance_m == geodesic_m(pickup, destination)
             duration_mmin == (distance_m * 60) \div d.speed + d.delay
             fare == 250000 + distance_m * 175 + duration_mmin * 35
         IN  [kind |-> "result",
              distance |-> round_half_even(distance_m, 10),
              duration |-> round_half_even(duration_mmin, 1000),
              fare |-> round_half_even(fare, 1000)]

\* the arguments explored: the hotspot centers and the corners of the box
TripLocations ==
    { CityGrid.hotspots[c][h].center : c \in DOMAIN CityGrid.hotspots, h \in 1..2 }
    \cup { <<4078000, -7395000>>, <<4073000, -7399000>>, <<4080000, -7396000>> }
    \cup { <<CityGrid.lat_range[i], CityGrid.lon_range[j]>> : i \in 1..2, j \in 1..2 }
TripDraws == [speed : {15, 25, 35}, delay : {0, 4400, 10000}]

NoTripCall == [called |-> FALSE, pickup |-> <<0, 0>>, destination |-> <<0, 0>>,
               out |-> [kind |-> "none", distance |-> 0, duration |-> 0, fare |-> 0]]

\* a call of CityGrid.calculate_trip_details from any caller
trip_details_call ==
    /\ \E pickup \in TripLocations, destination \in TripLocations, d \in TripDraws :
         trip_last' =
           [called |-> TRUE, pickup |-> pickup, destination |-> destination,
            out |-> calculate_trip_details(city_grid_globals, pickup, destination, d)]
    /\ UNCHANGED <<loc_bias, loc_result, city, demand_prev, demand_last>>
    /\ UNCHANGED gen_vars

(***************************************************************************)
(* RideHailingDataGenerator                                                *)
(***************************************************************************)
TickStep == 5
MaxJitter == 4

\* self.vehicle_types, keys in insertion order, and the capacities
vehicle_type_keys == <<"Economy", "Comfort", "Premium", "SUV", "Van">>
vehicle_types == [Economy |-> 4, Comfort |-> 4, Premium |-> 4, SUV |-> 6, Van |-> 8]

\* uuid.uuid4() as text: the first 8 characters and the 28 that follow
UuidHeads == {"1b9d6bcd", "f47ac10b"}
UuidTails == {"-bbfd-4b2d-9b5d-ab8dfbbd4bed", "-58cc-4372-a567-0e02b2c3d479"}
Uuids == [head : UuidHeads, tail : UuidTails]

\* f"{prefix}{str(uuid)[:8]}"
short_id(prefix, uuid) == <<prefix, uuid.head>>

\* a dict as a function on its key set; d[k] = v overwrites an existing key
EmptyDict == [k \in {} |-> TRUE]
dict_set(d, k, v) == [x \in (DOMAIN d) \cup {k} |-> IF x = k THEN v ELSE d[x]]

\* range(n): no iteration at all when n <= 0
range(n) == 1..Max(n, 0)

\* datetime.now(tz).replace(microsecond=0), then int(.timestamp())
NowDraws == { [sec |-> 1746000000, micro |-> 0],
              [sec |-> 1746000000, micro |-> 731000] }
replace_microsecond_0(now) == [sec |-> now.sec, micro |-> 0]
timestamp_int(t) == t.sec

\* two outcomes of the location draws: one lands in a hotspot for the biases
\* 0.8 and 0.9, the other in the bounding box
HotspotDraw == [rnd |-> 50, category |-> 2, hotspot |-> 1, angle |-> 3,
                u_radius |-> 100, u_lat |-> 0, u_lon |-> 0]
BoxDraw == [rnd |-> 95, category |-> 1, hotspot |-> 1, angle |-> 1,
            u_radius |-> 0, u_lat |-> 50, u_lon |-> 100]

\* the random draws of one iteration of _initialize_drivers, other than the ids
DriverSamples ==
    { [location |-> HotspotDraw, vehicle |-> 4, status |-> "AVAILABLE", battery |-> 30] }
DriverDraws ==
    [uuid : Uuids,
     vehicle_uuid : {[head |-> "6fa459ea", tail |-> "-ee8a-3ca4-894e-db77e160355e"]},
     sample : DriverSamples]

\* one iteration of the loop of _initialize_drivers
make_driver(d, now_ts) ==
    LET driver_id == short_id("D-", d.uuid)
        location == get_random_location(CityGrid, 80, d.sample.location)
        vehicle_type == choice(vehicle_type_keys, d.sample.vehicle)
    IN  [ driver_id |-> driver_id,
          current_location |-> [latitude |-> location[1], longitude |-> location[2]],
          status |-> d.sample.status,
          vehicle_info |-> [ vehicle_id |-> short_id("V-", d.vehicle_uuid),
                             vehicle_type |-> vehicle_type,
                             capacity |-> vehicle_types[vehicle_type] ],
          current_ride_id |-> "None",
          last_update |-> now_ts,
          battery_level |-> d.sample.battery ]

RECURSIVE drivers_loop(_, _, _, _)
drivers_loop(acc, draws, i, now_ts) ==
    IF i > Len(draws) THEN acc
    ELSE LET rec == make_driver(draws[i], now_ts)
         IN  drivers_loop(dict_set(acc, rec.driver_id, rec), draws, i + 1, now_ts)

\* _initialize_drivers(num_drivers); draws holds one entry per iteration
initialize_drivers(draws, now_ts) == drivers_loop(EmptyDict, draws, 1, now_ts)

\* the random draws of one iteration of _initialize_users, other than the id
UserSamples ==
    { [home |-> HotspotDraw, work |-> BoxDraw, vehicle |-> 1,
       name |-> "Ana Ruiz", cancel |-> 2],
      [home |-> BoxDraw, work |-> HotspotDraw, vehicle |-> 5,
       name |-> "Luis Vega", cancel |-> 8] }
UserDraws == [uuid : Uuids, sample : UserSamples]

\* one iteration of the loop of _initialize_users
make_user(d, now_ts) ==
    [ user_id |-> short_id("U-", d.uuid),
      name |-> d.sample.name,
      home_location |-> get_random_location(CityGrid, 90, d.sample.home),
      work_location |-> get_random_location(CityGrid, 90, d.sample.work),
      preferred_vehicle_type |-> choice(vehicle_type_keys, d.sample.vehicle),
      cancellation_probability |-> d.sample.cancel,
      last_activity |-> now_ts ]

RECURSIVE users_loop(_, _, _, _)
users_loop(acc, draws, i, now_ts) ==
    IF i > Len(draws) THEN acc
    ELSE LET rec == make_user(draws[i], now_ts)
         IN  users_loop(dict_set(acc, rec.user_id, rec), draws, i + 1, now_ts)

\* _initialize_users(num_users); draws holds one entry per iteration
initialize_users(draws, now_ts) == users_loop(EmptyDict, draws, 1, now_ts)

\* the configurations explored; negative counts included
Rates == {5}
Configs == [num_drivers : -1..MaxDrivers, num_users : -1..MaxUsers,
            base_request_rate : Rates]

\* RideHailingDataGenerator.__init__(config)
init ==
    /\ ctor_outcome = "none"
    /\ \E cfg \in Configs, now \in NowDraws :
         \E dd \in [range(cfg.num_drivers) -> DriverDraws],
            ud \in [range(cfg.num_users) -> UserDraws] :
           LET t0 == timestamp_int(replace_microsecond_0(now))
           IN  /\ config' = cfg
               /\ current_time' = t0
               /\ start_time' = t0
               /\ drivers' = initialize_drivers(dd, t0)
               /\ users' = initialize_users(ud, t0)
               /\ active_rides' = EmptyDict
               /\ ctor_outcome' = "ok"
    /\ UNCHANGED <<outcome, last_gauss, emitted>>
    /\ UNCHANGED grid_vars

\* int(x) of a float given in tenths: truncation toward zero
py_int(x10) == IF x10 >= 0 THEN x10 \div 10 ELSE -((-x10) \div 10)

\* Values random.gauss(base_request_rate, 1) can return, in tenths.  A normal
\* draw has every real in its support whatever its mean, so the same values
\* are explored for every base_request_rate: -1.0, 0.0, 1.7 and 2.7.
GaussDraws == {-10, 0, 17, 27}

\* A mutation of num_requests: the max(1, ...) floor left out.
num_requests_nofloor(g) == py_int(g)

\* A mutation of num_requests: round() in place of int().
num_requests_rounded(g) == Max(1, round_half_even(g, 10))

\* num_requests = max(1, int(g)), g the value random.gauss returned
num_requests(g) == Max(1, py_int(g))

\* the random draws of one loop iteration, other than the user and the id
RequestSamples ==
    { [jitter |-> 0, fare |-> 500, duration |-> 5, distance |-> 100, passengers |-> 1],
      [jitter |-> MaxJitter, fare |-> 5000, duration |-> 45, distance |-> 2000,
       passengers |-> 4] }
RequestDraws(pool) == [user : DOMAIN pool, uuid : Uuids, sample : RequestSamples]

\* A mutation of make_request: the reverse commute (pickup at work).
make_request_reversed(pool, now, d) ==
    LET user == pool[d.user]
    IN  [ request_id |-> short_id("R-", d.uuid),
          user_id |-> user.user_id,
          timestamp |-> now + d.sample.jitter,
          pickup_location |-> [latitude |-> user.work_location[1],
                               longitude |-> user.work_location[2]],
          destination |-> [latitude |-> user.home_location[1],
                           longitude |-> user.home_location[2]],
          status |-> "REQUESTED",
          vehicle_type |-> user.preferred_vehicle_type,
          estimated_fare |-> d.sample.fare,
          estimated_duration |-> d.sample.duration,
          estimated_distance |-> d.sample.distance,
          passenger_count |-> d.sample.passengers ]

\* A mutation of make_request: a request of a busy user goes out as ACCEPTED.
make_request_accepted(pool, now, d) ==
    LET user == pool[d.user]
    IN  [ request_id |-> short_id("R-", d.uuid),
          user_id |-> user.user_id,
          timestamp |-> now + d.sample.jitter,
          pickup_location |-> [latitude |-> user.home_location[1],
                               longitude |-> user.home_location[2]],
          destination |-> [latitude |-> user.work_location[1],
                           longitude |-> user.work_location[2]],
          status |-> IF d.sample.passengers > 1 THEN "ACCEPTED" ELSE "REQUESTED",
          vehicle_type |-> user.preferred_vehicle_type,
          estimated_fare |-> d.sample.fare,
          estimated_duration |-> d.sample.duration,
          estimated_distance |-> d.sample.distance,
          passenger_count |-> d.sample.passengers ]

\* A mutation of make_request: the jitter counted twice.
make_request_late(pool, now, d) ==
    LET user == pool[d.user]
    IN  [ request_id |-> short_id("R-", d.uuid),
          user_id |-> user.user_id,
          timestamp |-> now + 2 * d.sample.jitter,
          pickup_location |-> [latitude |-> user.home_location[1],
                               longitude |-> user.home_location[2]],
          destination |-> [latitude |-> user.work_location[1],
                           longitude |-> user.work_location[2]],
          status |-> "REQUESTED",
          vehicle_type |-> user.preferred_vehicle_type,
          estimated_fare |-> d.sample.fare,
          estimated_duration |-> d.sample.duration,
          estimated_distance |-> d.sample.distance,
          passenger_count |-> d.sample.passengers ]

\* one iteration of the loop of generate_ride_requests
make_request(pool, now, d) ==
    LET user == pool[d.user]
    IN  [ request_id |-> short_id("R-", d.uuid),
          user_id |-> user.user_id,
          timestamp |-> now + d.sample.jitter,
          pickup_location |-> [latitude |-> user.home_location[1],
                               longitude |-> user.home_location[2]],
          destination |-> [latitude |-> user.work_location[1],
                           longitude |-> user.work_location[2]],
          status |-> "REQUESTED",
          vehicle_type |-> user.preferred_vehicle_type,
          estimated_fare |-> d.sample.fare,
          estimated_duration |-> d.sample.duration,
          estimated_distance |-> d.sample.distance,
          passenger_count |-> d.sample.passengers ]

\* A mutation of advance: the clock moved by one second less than the step.
advance_short(t) == t + TickStep - 1

\* A mutation of advance: the clock moved by the largest jitter, not the step.
advance_by_jitter(t) == t + MaxJitter

\* the clock step at the end of a tick: self.current_time += timedelta(seconds=5)
advance(t) == t + TickStep

RECURSIVE TotalLen(_)
TotalLen(batches) ==
    IF batches = <<>> THEN 0 ELSE Len(Head(batches)) + TotalLen(Tail(batches))

\* A mutation of generate_ride_requests: each tick also stamps last_activity
\* of the users it drew.
generate_ride_requests_touching ==
    /\ ctor_outcome = "ok"
    /\ \E g \in GaussDraws :
         LET n == num_requests(g)
         IN  /\ TotalLen(emitted) + n <= MaxEmitted
             /\ Len(emitted) < MaxEmitted
             /\ last_gauss' = g
             /\ IF n >= 1 /\ DOMAIN users = {}
                THEN /\ outcome' = "IndexError"
                     /\ UNCHANGED <<current_time, emitted, users>>
                ELSE \E rd \in [range(n) -> RequestDraws(users)] :
                       /\ emitted' = Append(emitted,
                              [i \in range(n) |-> make_request(users, current_time, rd[i])])
                       /\ users' = [u \in DOMAIN users |->
                              IF \E i \in range(n) : rd[i].user = u
                              THEN [users[u] EXCEPT !.last_activity = current_time]
                              ELSE users[u]]
                       /\ current_time' = advance(current_time)
                       /\ outcome' = "returned"
    /\ UNCHANGED <<config, ctor_outcome, start_time, drivers, active_rides>>
    /\ UNCHANGED grid_vars

\* A mutation of generate_ride_requests: the clock is advanced at the top of
\* the call, before the loop.
generate_ride_requests_clock_first ==
    /\ ctor_outcome = "ok"
    /\ \E g \in GaussDraws :
         LET n == num_requests(g)
         IN  /\ TotalLen(emitted) + n <= MaxEmitted
             /\ Len(emitted) < MaxEmitted
             /\ last_gauss' = g
             /\ current_time' = advance(current_time)
             /\ IF n >= 1 /\ DOMAIN users = {}
                THEN /\ outcome' = "IndexError"
                     /\ UNCHANGED emitted
                ELSE \E rd \in [range(n) -> RequestDraws(users)] :
                       /\ emitted' = Append(emitted,
                              [i \in range(n) |->
                                  make_request(users, current_time', rd[i])])
                       /\ outcome' = "returned"
    /\ UNCHANGED <<config, ctor_outcome, start_time, drivers, users, active_rides>>
    /\ UNCHANGED grid_vars

\* RideHailingDataGenerator.generate_ride_requests()
generate_ride_requests ==
    /\ ctor_outcome = "ok"
    /\ \E g \in GaussDraws :
         LET n == num_requests(g)
         IN  /\ TotalLen(emitted) + n <= MaxEmitted
             /\ Len(emitted) < MaxEmitted
             /\ last_gauss' = g
             /\ IF n >= 1 /\ DOMAIN users = {}
                THEN \* random.choice([]) raises IndexError in the first iteration
                     /\ outcome' = "IndexError"
                     /\ UNCHANGED <<current_time, emitted>>
                ELSE \E rd \in [range(n) -> RequestDraws(users)] :
                       /\ emitted' = Append(emitted,
                              [i \in range(n) |-> make_request(users, current_time, rd[i])])
                       /\ current_time' = advance(current_time)
                       /\ outcome' = "returned"
    /\ UNCHANGED <<config, ctor_outcome, start_time, drivers, users, active_rides>>
    /\ UNCHANGED grid_vars

Init ==
    /\ config = [num_drivers |-> 0, num_users |-> 0, base_request_rate |-> 0]
    /\ ctor_outcome = "none"
    /\ start_time = 0
    /\ current_time = 0
    /\ drivers = EmptyDict
    /\ users = EmptyDict
    /\ active_rides = EmptyDict
    /\ outcome = "none"
    /\ last_gauss = 0
    /\ emitted = <<>>
    /\ loc_bias = -1
    /\ loc_result = <<0, 0>>
    /\ city = CityGrid
    /\ demand_prev = NoDemandCall
    /\ demand_last = NoDemandCall
    /\ trip_last = NoTripCall

Next == init \/ generate_ride_requests

Spec == Init /\ [][Next]_vars

NextGrid == sample_location

SpecGrid == Init /\ [][NextGrid]_vars

NextDemand == demand_factor_call

SpecDemand == Init /\ [][NextDemand]_vars

NextTrip == trip_details_call

SpecTrip == Init /\ [][NextTrip]_vars

(***************************************************************************)
(* Properties                                                              *)
(***************************************************************************)
Constructed == ctor_outcome = "ok"

\* the positions <<b, i>> of every request returned so far
Positions == {p \in (1..Len(emitted)) \X (1..MaxEmitted + 1) : p[2] <= Len(emitted[p[1]])}
RequestAt(p) == emitted[p[1]][p[2]]

\* the point lies within radius (degrees) of the center of some hotspot
InSomeHotspot(grid, point) ==
    \E c \in DOMAIN grid.hotspots :
      \E h \in DOMAIN grid.hotspots[c] :
        LET hs == grid.hotspots[c][h]
            dlat == point[1] - hs.center[1]
            dlon == point[2] - hs.center[2]
        IN  dlat * dlat + dlon * dlon <= hs.radius * hs.radius

\* the point lies in the bounding box
InBounds(grid, point) ==
    /\ grid.lat_range[1] <= point[1] /\ point[1] <= grid.lat_range[2]
    /\ grid.lon_range[1] <= point[2] /\ point[2] <= grid.lon_range[2]

\* C1: with a non-empty user pool, no call of generate_ride_requests raises and
\* every batch returned, after any number of earlier calls, holds at least one
\* request, whatever the Gaussian draw was (zero and negative included).
C1_BatchNeverEmpty ==
    (Constructed /\ DOMAIN users # {}) =>
        /\ outcome # "IndexError"
        /\ \A b \in 1..Len(emitted) : Len(emitted[b]) >= 1

\* C1 witness: a second tick on a non-empty pool returned after a draw <= 0.
C1_Witness ==
    /\ Constructed /\ DOMAIN users # {}
    /\ outcome = "returned" /\ Len(emitted) = 2 /\ last_gauss <= 0
    /\ Len(emitted[2]) = 1

\* C2 (as claimed): built with num_users = 0, a call of generate_ride_requests
\* returns an empty batch and raises nothing.
C2_EmptyPoolGivesEmptyBatch ==
    (Constructed /\ config.num_drivers >= 0 /\ config.num_users = 0
        /\ outcome # "none") =>
        /\ outcome = "returned"
        /\ emitted[Len(emitted)] = <<>>

\* C3 (as claimed): a negative num_drivers or num_users makes construction fail
\* with a configuration error, and no pool is built.
C3_NegativeCountsRejected ==
    (ctor_outcome # "none" /\ (config.num_drivers < 0 \/ config.num_users < 0)) =>
        ctor_outcome = "ConfigError"

\* C4 (as claimed): for counts >= 0 the pools hold exactly num_drivers drivers
\* and num_users users, whatever the id draws were; and with one user every
\* request carries that user's id.
C4_PoolSizesExact ==
    (Constructed /\ config.num_drivers >= 0 /\ config.num_users >= 0) =>
        /\ Cardinality(DOMAIN drivers) = config.num_drivers
        /\ Cardinality(DOMAIN users) = config.num_users
        /\ \A d \in DOMAIN drivers : drivers[d].driver_id = d
        /\ \A u \in DOMAIN users : users[u].user_id = u
        /\ (config.num_users = 1 =>
              \A p \in Positions : RequestAt(p).user_id \in DOMAIN users)

\* C5: every request returned by any tick is derived from one user of the pool:
\* its user_id is a key of the pool, its pickup is that user's home, its
\* destination that user's work, its vehicle_type that user's preferred type.
C5_RequestDerivedFromUser ==
    \A p \in Positions :
      LET r == RequestAt(p)
      IN  /\ r.user_id \in DOMAIN users
          /\ LET user == users[r.user_id]
             IN  /\ r.pickup_location = [latitude |-> user.home_location[1],
                                         longitude |-> user.home_location[2]]
                 /\ r.destination = [latitude |-> user.work_location[1],
                                     longitude |-> user.work_location[2]]
                 /\ r.vehicle_type = user.preferred_vehicle_type

\* C5 witness: a pool of two users that differ in home, work and vehicle type,
\* and one batch holding a request of each.
C5_Witness ==
    /\ Cardinality(DOMAIN users) = 2
    /\ \E u1, u2 \in DOMAIN users :
         /\ users[u1].home_location # users[u2].home_location
         /\ users[u1].home_location # users[u1].work_location
         /\ users[u1].preferred_vehicle_type # users[u2].preferred_vehicle_type
         /\ Len(emitted) = 1 /\ Len(emitted[1]) = 2
         /\ emitted[1][1].user_id = u1 /\ emitted[1][2].user_id = u2

\* C6: the clock moves only in completed ticks and then by exactly 5 seconds:
\* after n returned batches it equals its value at construction plus 5n, a
\* step that returns a batch adds 5, and no other step changes it.
C6_ClockStep ==
    /\ [](Constructed => current_time = start_time + 5 * Len(emitted))
    /\ [][Constructed =>
            /\ (Len(emitted') = Len(emitted) + 1 => current_time' = current_time + 5)
            /\ (Len(emitted') = Len(emitted) => current_time' = current_time)
            /\ start_time' = start_time]_vars

\* C6 witness: two completed ticks, the clock 10 seconds past construction.
C6_Witness ==
    /\ Constructed /\ Len(emitted) = 2 /\ outcome = "returned"
    /\ current_time = start_time + 10

\* C7: once constructed, no step changes the driver pool or the user pool:
\* the id sets and every field of every record stay as built.
C7_PoolsFrozen ==
    [][Constructed => (drivers' = drivers /\ users' = users)]_vars

\* C7 witness: two ticks were served from non-empty pools.
C7_Witness ==
    /\ Constructed /\ DOMAIN drivers # {} /\ Cardinality(DOMAIN users) = 2
    /\ Len(emitted) = 2

\* C8: every request returned has status REQUESTED, and a later step changes
\* no field of a request returned earlier.
C8_RequestedAndNeverRevisited ==
    /\ [](\A p \in Positions : RequestAt(p).status = "REQUESTED")
    /\ [][/\ Len(emitted') >= Len(emitted)
          /\ \A b \in 1..Len(emitted) : emitted'[b] = emitted[b]]_vars

\* C8 witness: a second batch was returned after a first one, with requests
\* that differ in passenger count and fare.
C8_Witness ==
    /\ Len(emitted) = 2 /\ outcome = "returned"
    /\ emitted[1][1].passenger_count # emitted[2][1].passenger_count
    /\ emitted[1][1].estimated_fare # emitted[2][1].estimated_fare

\* C9 (as claimed): no two requests returned, in one batch or in different
\* batches, carry the same request_id, whatever the id draws were.
C9_RequestIdsUnique ==
    (Constructed /\ config.num_drivers >= 0 /\ config.num_users >= 0) =>
        \A p, q \in Positions :
          p # q => RequestAt(p).request_id # RequestAt(q).request_id

\* C10: get_random_location returns a point of the chosen region: with
\* hotspot_bias 1.0 a point within radius of some hotspot center, with
\* hotspot_bias 0.0 a point of the bounding box, otherwise one of the two.
C10_LocationInRegion ==
    loc_bias >= 0 =>
        /\ (loc_bias = 100 => InSomeHotspot(CityGrid, loc_result))
        /\ (loc_bias = 0 => InBounds(CityGrid, loc_result))
        /\ (InSomeHotspot(CityGrid, loc_result) \/ InBounds(CityGrid, loc_result))

\* C10 witness: with hotspot_bias 1.0, a point on the rim of the JFK hotspot,
\* which lies outside the bounding box.
C10_Witness ==
    /\ loc_bias = 100
    /\ loc_result = <<4064000 + 1800, -7378000 + 2400>>
    /\ ~InBounds(CityGrid, loc_result)

\* the sum of the increments of the hotspots within radius * 111 km of location
RECURSIVE SumInRange(_, _, _, _)
SumInRange(g, location, hour, visits) ==
    IF visits = <<>> THEN 0
    ELSE LET category == Head(visits)[1]
             hotspot == g.hotspots[category][Head(visits)[2]]
         IN  (IF geodesic_m(location, hotspot.center) <= radius_m(hotspot)
              THEN demand_increment(category, hour) ELSE 0)
             + SumInRange(g, location, hour, Tail(visits))

\* C11 (as claimed): a call get_hotspot_demand_factor(location, hour) returns
\* 1.0 plus the sum of the increments of every hotspot within radius * 111 km
\* of the location, and hotspots farther away add nothing.
C11_DemandIsOnePlusSum ==
    demand_last.called =>
        /\ demand_last.out.kind = "value"
        /\ demand_last.out.value =
              10 + SumInRange(city, demand_last.location, demand_last.hour,
                              hotspot_visits(city, 1, 1))

LastBatch == emitted[Len(emitted)]

\* C15 (as claimed): the size of a returned batch is max(1, round(g)), g the
\* Gaussian draw and round the rounding to the nearest integer.
C15_BatchSizeRounds ==
    outcome = "returned" =>
        Len(LastBatch) = (IF round_half_even(last_gauss, 10) >= 1
                          THEN round_half_even(last_gauss, 10) ELSE 1)

\* C15 (amended): the size of a returned batch is max(1, int(g)), int cutting
\* the fraction off: a draw below 2.0 gives 1 request, a draw of 2.7 gives 2.
C15_BatchSizeTruncates ==
    outcome = "returned" =>
        Len(LastBatch) = (IF last_gauss >= 10 THEN last_gauss \div 10 ELSE 1)

\* C15 witness: a draw of 1.7 gave a batch of one request.
C15_Witness ==
    /\ outcome = "returned" /\ last_gauss = 17 /\ Len(LastBatch) = 1

\* C16: every request of a batch is stamped with the clock value the tick
\* started with plus a whole number of seconds from 0 to 4, the same clock
\* value for the whole batch.
C16_TimestampWithinJitter ==
    [][Len(emitted') = Len(emitted) + 1 =>
          \A i \in 1..Len(emitted'[Len(emitted')]) :
            /\ emitted'[Len(emitted')][i].timestamp >= current_time
            /\ emitted'[Len(emitted')][i].timestamp <= current_time + 4]_vars

\* C16 witness: one batch of two requests, stamped with the clock value and
\* with the clock value plus 4.
C16_Witness ==
    /\ Len(emitted) = 1 /\ Len(emitted[1]) = 2
    /\ emitted[1][1].timestamp = start_time
    /\ emitted[1][2].timestamp = start_time + 4

\* C17: every request of an earlier batch has a timestamp strictly smaller
\* than every request of a later batch.
C17_BatchesOrderedInTime ==
    \A p, q \in Positions :
      p[1] < q[1] => RequestAt(p).timestamp < RequestAt(q).timestamp

\* C17 witness: the closest case, the first batch stamped with the largest
\* jitter and the second with none.
C17_Witness ==
    /\ Len(emitted) = 2
    /\ emitted[1][1].timestamp = start_time + 4
    /\ emitted[2][1].timestamp = start_time + 5

\* C18: a call that raises leaves the clock, both pools, active_rides and the
\* batches returned so far as they were, and the clock moves only in a step
\* that returns a batch.
C18_RaisingTickChangesNothing ==
    /\ [][outcome' = "IndexError" =>
            /\ current_time' = current_time
            /\ drivers' = drivers /\ users' = users
            /\ active_rides' = active_rides
            /\ emitted' = emitted]_vars
    /\ [][(Constructed /\ current_time' # current_time) =>
            /\ outcome' = "returned"
            /\ Len(emitted') = Len(emitted) + 1]_vars

\* C18 witness: a call on an empty user pool raised; the clock still shows the
\* construction time and the driver pool is as built.
C18_Witness ==
    /\ Constructed /\ outcome = "IndexError"
    /\ DOMAIN users = {} /\ DOMAIN drivers # {}
    /\ current_time = start_time /\ emitted = <<>>

====
